---- MODULE Spec2Model ----
(***************************************************************************)
(* Model of the glTF export operator ExportGLTF of blendergltf             *)
(* (src/__init__.py): its properties, the host callbacks invoke / check /  *)
(* draw, and execute, which calls export_gltf and then assembles and       *)
(* writes the document.                                                    *)
(*                                                                         *)
(* Strings whose characters the code inspects (file paths, scene and node  *)
(* identifiers) are sequences of one-character strings.                    *)
(***************************************************************************)
EXTENDS Integers, Sequences, FiniteSets, TLC

(***************************************************************************)
(* Bounds of the model.                                                    *)
(***************************************************************************)
\* longest free part of a file name the user types
MaxStemLen == 2
\* most root nodes export_gltf lists in one scene
MaxSceneNodes == 2
\* most children of a node export_gltf returns
MaxChildren == 1
\* most parameters of a technique export_gltf returns
MaxParams == 1

(***************************************************************************)
(* Strings.                                                                *)
(***************************************************************************)
DOT_GLTF == <<".", "g", "l", "t", "f">>
DOT_GLB == <<".", "g", "l", "b">>
DOT_RAW == <<".", "r", "a", "w">>
EMPTY == << >>

\* str.endswith(suffix)
endswith(s, suffix) ==
    /\ Len(s) >= Len(suffix)
    /\ SubSeq(s, Len(s) - Len(suffix) + 1, Len(s)) = suffix

\* s[:-n], for 0 < n
DropLast(s, n) == IF Len(s) <= n THEN EMPTY ELSE SubSeq(s, 1, Len(s) - n)

\* os.path.basename(path): what follows the last "/"
basename(path) ==
    LET slashes == {i \in 1..Len(path) : path[i] = "/"}
        last == IF slashes = {} THEN 0
                ELSE CHOOSE i \in slashes : \A j \in slashes : j <= i
    IN SubSeq(path, last + 1, Len(path))

\* code points of the characters identifiers and extension names are made of
Ord(c) ==
    CASE c = "A" -> 65 [] c = "B" -> 66 [] c = "C" -> 67 [] c = "D" -> 68
      [] c = "E" -> 69 [] c = "H" -> 72 [] c = "K" -> 75 [] c = "L" -> 76
      [] c = "N" -> 78 [] c = "R" -> 82 [] c = "S" -> 83 [] c = "T" -> 84
      [] c = "_" -> 95 [] c = "b" -> 98 [] c = "c" -> 99 [] c = "e" -> 101
      [] c = "g" -> 103 [] c = "h" -> 104 [] c = "i" -> 105
      [] c = "l" -> 108 [] c = "n" -> 110 [] c = "o" -> 111
      [] c = "p" -> 112 [] c = "q" -> 113 [] c = "r" -> 114
      [] c = "s" -> 115 [] c = "t" -> 116 [] c = "u" -> 117
      [] c = "w" -> 119 [] c = "y" -> 121

\* a < b for Python strings: lexicographic by code point
RECURSIVE StrLess(_, _)
StrLess(a, b) ==
    IF b = EMPTY THEN FALSE
    ELSE IF a = EMPTY THEN TRUE
    ELSE IF Ord(Head(a)) # Ord(Head(b)) THEN Ord(Head(a)) < Ord(Head(b))
    ELSE StrLess(Tail(a), Tail(b))

\* sorted(keys)[0], for a non-empty set of strings
SortedFirst(keys) == CHOOSE k \in keys : \A j \in keys : j = k \/ StrLess(k, j)

\* the sequences over S of length at most n
SeqsUpTo(S, n) == UNION {[1..k -> S] : k \in 0..n}

Range(f) == {f[i] : i \in DOMAIN f}

(***************************************************************************)
(* Program constants.                                                      *)
(***************************************************************************)
\* VERSION_ITEMS, as distutils StrictVersion compares them
VERSION_1_0 == <<1, 0>>
VERSION_2_0 == <<2, 0>>
VERSION_ITEMS == {VERSION_1_0, VERSION_2_0}

\* Version(a) < Version(b)
VersionLess(a, b) == a[1] < b[1] \/ (a[1] = b[1] /\ a[2] < b[2])

KHR_technique_webgl == "KHR_technique_webgl"

\* extension_exporters.__all__: the exporters of the package, each known by
\* its ext_meta['name'], in the order the package lists them
extension_exporters_all ==
    <<KHR_technique_webgl, "BLENDER_physics", "KHR_lights">>

\* ext.ext_meta['name'], character by character
ext_meta_name(ext) ==
    CASE ext = "BLENDER_physics" ->
            <<"B", "L", "E", "N", "D", "E", "R", "_",
              "p", "h", "y", "s", "i", "c", "s">>
      [] ext = "KHR_lights" ->
            <<"K", "H", "R", "_", "l", "i", "g", "h", "t", "s">>
      [] ext = KHR_technique_webgl ->
            <<"K", "H", "R", "_", "t", "e", "c", "h", "n", "i", "q", "u", "e",
              "_", "w", "e", "b", "g", "l">>

\* sorted(exts, key=lambda ext: ext.ext_meta['name']): a stable sort, each
\* element put behind the ones before it that do not sort after it
RECURSIVE sorted_by_name(_)
sorted_by_name(exts) ==
    IF exts = << >> THEN << >>
    ELSE LET ext == exts[Len(exts)]
             front == sorted_by_name(SubSeq(exts, 1, Len(exts) - 1))
             k == Cardinality({i \in DOMAIN front :
                     ~StrLess(ext_meta_name(ext), ext_meta_name(front[i]))})
         IN SubSeq(front, 1, k) \o <<ext>> \o SubSeq(front, k + 1, Len(front))

\* ExportGLTF.ext_exporters: the registered exporters, sorted by name
ext_exporters == sorted_by_name(extension_exporters_all)
ExtNames == Range(ext_exporters)

\* mathutils.Matrix.Identity(4), as rows
Identity4 == <<<<1, 0, 0, 0>>, <<0, 1, 0, 0>>, <<0, 0, 1, 0>>, <<0, 0, 0, 1>>>>

\* the orientation helper's (axis_forward, axis_up) choices modelled:
\* Blender's own axes, the operator's default, and the -Z forward / Y up one
AXIS_BLENDER == <<"Y", "Z">>
AXIS_DEFAULT == <<"Z", "Y">>
AXIS_NEG_Z == <<"-Z", "Y">>
AxisChoices == {AXIS_BLENDER, AXIS_DEFAULT, AXIS_NEG_Z}

\* axis_conversion(to_forward, to_up).to_4x4(), from forward Y / up Z
axis_conversion(axis) ==
    CASE axis = AXIS_BLENDER -> Identity4
      [] axis = AXIS_DEFAULT ->
            <<<<-1, 0, 0, 0>>, <<0, 0, 1, 0>>, <<0, 1, 0, 0>>, <<0, 0, 0, 1>>>>
      [] axis = AXIS_NEG_Z ->
            <<<<1, 0, 0, 0>>, <<0, 0, 1, 0>>, <<0, -1, 0, 0>>, <<0, 0, 0, 1>>>>

(***************************************************************************)
(* What the user can type as a file name: a short free part, then up to    *)
(* two of the extensions the operator knows.                               *)
(***************************************************************************)
PathChars == {"a", ".", "/"}
Extensions == {EMPTY, DOT_GLTF, DOT_GLB}
UserPaths ==
    {s \o t \o e : s \in SeqsUpTo(PathChars, MaxStemLen),
                   t \in Extensions, e \in Extensions} \ {EMPTY}

\* the name of the .blend file without its extension ("untitled" when unsaved)
UNTITLED == <<"u", "n", "t", "i", "t", "l", "e", "d">>
BlendNames == {UNTITLED, <<"a">>}

(***************************************************************************)
(* State.                                                                  *)
(***************************************************************************)
VARIABLES
    \* operator properties
    filepath, filename_ext, gltf_export_binary, buffers_embed_data,
    buffers_combine_data, asset_version, materials_disable, axis,
    extension_props, ext_prop_to_exporter_map,
    \* ext_meta['enable'] of each exporter (shared by all operator instances)
    ext_meta_enable,
    \* the Blender scene: the document export_gltf makes of it
    bpy_data,
    \* execute(): where it is, its locals, the files it touched, its outcome
    pc, settings, gltf, files,
    \* history: the path as the user chose it, whether check() ran since the
    \* path or the binary flag last changed, and the document as export_gltf
    \* returned it
    chosen, path_checked, gltf0

props == <<filepath, filename_ext, gltf_export_binary, buffers_embed_data,
           buffers_combine_data, asset_version, materials_disable, axis>>
ext_vars == <<extension_props, ext_prop_to_exporter_map, ext_meta_enable>>
exec_vars == <<pc, settings, gltf, files, gltf0>>
hist_vars == <<chosen, path_checked>>
vars == <<props, ext_vars, bpy_data, exec_vars, hist_vars>>

NoSettings == [set |-> FALSE]
NoDocument == [set |-> FALSE]

(***************************************************************************)
(* The documents export_gltf can return, as execute() reads them:          *)
(* gltf['scenes'] and gltf['nodes'] are mappings keyed by identifier, a    *)
(* scene has a 'nodes' list, gltf['techniques'] maps to techniques whose   *)
(* 'parameters' map to records with a 'type' and possibly a 'value'.       *)
(***************************************************************************)
ROOT_SUFFIX == <<"_", "r", "o", "o", "t">>
SceneIds == {<<"S">>, <<"T">>}
\* node identifiers, one of them of the form '<scene_id>_root'
NodeIds == {<<"A">>, <<"B">>, <<"S">> \o ROOT_SUFFIX}
\* a transform as the 16 numbers of a 'matrix' entry
IdentityFlat == <<1, 0, 0, 0, 0, 1, 0, 0, 0, 0, 1, 0, 0, 0, 0, 1>>

\* the lists of distinct elements of S, of length at most n
ListsUpTo(S, n) ==
    {l \in SeqsUpTo(S, n) : \A i, j \in DOMAIN l : l[i] = l[j] => i = j}

\* n can reach m through 'children' in at most k steps
RECURSIVE Reaches(_, _, _, _)
Reaches(nodes, n, m, k) ==
    /\ k > 0
    /\ n \in DOMAIN nodes
    /\ \E c \in Range(nodes[n].children) :
         c = m \/ Reaches(nodes, c, m, k - 1)

Acyclic(nodes) ==
    \A n \in DOMAIN nodes : ~Reaches(nodes, n, n, Cardinality(DOMAIN nodes))

\* the node mappings export_gltf returns: children are nodes of the
\* document, and no node is among its own descendants
NodeMaps ==
    UNION {
      {nodes \in [N -> [name : N, children : ListsUpTo(N, MaxChildren),
                        matrix : {IdentityFlat}]] :
           /\ \A n \in N : nodes[n].name = n
           /\ Acyclic(nodes)} : N \in SUBSET NodeIds}

SceneMaps(N) ==
    UNION {[S -> [nodes : ListsUpTo(N, MaxSceneNodes)]] : S \in SUBSET SceneIds}

\* GL types of technique parameters
GL_INT == 5124
GL_FLOAT == 5126
GL_FLOAT_VEC2 == 35664
GL_FLOAT_VEC3 == 35665
GL_FLOAT_VEC4 == 35666
GL_FLOAT_MAT2 == 35674
GL_FLOAT_MAT3 == 35675
GL_FLOAT_MAT4 == 35676
\* a GL type _DEFAULT_VALUES_BY_PARAM_TYPE has no entry for
GL_SAMPLER_2D == 35678

\* Values of a parameter's 'value' entry.  A number is written by its
\* integer part; tag tells 1 from 1.0 and a scalar from a tuple.
Absent == [tag |-> "absent", v |-> << >>]
None == [tag |-> "None", v |-> << >>]
IntVal(n) == [tag |-> "int", v |-> <<n>>]
FloatVal(n) == [tag |-> "float", v |-> <<n>>]
FloatTuple(t) == [tag |-> "floats", v |-> t]

ParamTypes == {GL_INT, GL_FLOAT, GL_FLOAT_MAT4, GL_SAMPLER_2D}
ParamValues == {Absent, None, FloatVal(2)}
TechniqueIds == {"t", "u"}

Techniques ==
    UNION {[k -> [type : ParamTypes, value : ParamValues]] :
             k \in {1..n : n \in 0..MaxParams}}

TechniqueMaps ==
    UNION {[T -> [parameters : Techniques]] : T \in SUBSET TechniqueIds}

NoTechniques == [t \in {} |-> [parameters |-> << >>]]

\* one scene with one root node, no techniques
PlainData ==
    [scenes |-> (<<"S">> :> [nodes |-> <<<<"A">>>>]),
     nodes |-> (<<"A">> :> [name |-> <<"A">>, children |-> << >>,
                            matrix |-> IdentityFlat]),
     techniques |-> NoTechniques]

\* the scenes and node hierarchies, without techniques
SceneData ==
    UNION {[scenes : SceneMaps(DOMAIN nodes), nodes : {nodes},
            techniques : {NoTechniques}] : nodes \in NodeMaps}

\* the techniques, in the plain scene
TechniqueData ==
    [scenes : {PlainData.scenes}, nodes : {PlainData.nodes},
     techniques : TechniqueMaps]

\* export_gltf(data, settings): the techniques exist for version 1.0 only;
\* the default scene is left to execute()
export_gltf(data, s) ==
    [set |-> TRUE,
     scenes |-> data.scenes,
     nodes |-> data.nodes,
     scene |-> {},
     techniques |-> IF VersionLess(s.asset_version, VERSION_2_0)
                    THEN data.techniques ELSE NoTechniques]

(***************************************************************************)
(* The state after the operator's construction: the properties' defaults.  *)
(***************************************************************************)
InitWith(Data) ==
    /\ filepath = EMPTY
    /\ filename_ext = EMPTY
    /\ gltf_export_binary = FALSE
    /\ buffers_embed_data = FALSE
    /\ buffers_combine_data = TRUE
    /\ asset_version = VERSION_2_0
    /\ materials_disable = FALSE
    /\ axis = AXIS_DEFAULT
    /\ extension_props = << >>
    /\ ext_prop_to_exporter_map = {}
    /\ ext_meta_enable = [n \in ExtNames |-> FALSE]
    /\ bpy_data \in Data
    /\ pc = "idle"
    /\ settings = NoSettings
    /\ gltf = NoDocument
    /\ gltf0 = NoDocument
    /\ files = << >>
    /\ chosen = EMPTY
    /\ path_checked = FALSE

(***************************************************************************)
(* Property changes, by the file selector's widgets or by a script.  The   *)
(* host runs them between the operator's callbacks, never inside one.      *)
(***************************************************************************)
SetFilepath(path) ==
    /\ pc = "idle"
    /\ filepath' = path
    /\ chosen' = path
    /\ path_checked' = FALSE
    /\ UNCHANGED <<filename_ext, gltf_export_binary, buffers_embed_data,
                   buffers_combine_data, asset_version, materials_disable,
                   axis, ext_vars, bpy_data, exec_vars>>

SetBinary(b) ==
    /\ pc = "idle"
    /\ b # gltf_export_binary
    /\ gltf_export_binary' = b
    /\ path_checked' = FALSE
    /\ UNCHANGED <<filepath, filename_ext, buffers_embed_data,
                   buffers_combine_data, asset_version, materials_disable,
                   axis, ext_vars, bpy_data, exec_vars, chosen>>

SetEmbed(b) ==
    /\ pc = "idle"
    /\ b # buffers_embed_data
    /\ buffers_embed_data' = b
    /\ UNCHANGED <<filepath, filename_ext, gltf_export_binary,
                   buffers_combine_data, asset_version, materials_disable,
                   axis, ext_vars, bpy_data, exec_vars, hist_vars>>

SetCombine(b) ==
    /\ pc = "idle"
    /\ b # buffers_combine_data
    /\ buffers_combine_data' = b
    /\ UNCHANGED <<filepath, filename_ext, gltf_export_binary,
                   buffers_embed_data, asset_version, materials_disable,
                   axis, ext_vars, bpy_data, exec_vars, hist_vars>>

SetVersion(v) ==
    /\ pc = "idle"
    /\ v # asset_version
    /\ asset_version' = v
    /\ UNCHANGED <<filepath, filename_ext, gltf_export_binary,
                   buffers_embed_data, buffers_combine_data,
                   materials_disable, axis, ext_vars, bpy_data, exec_vars,
                   hist_vars>>

SetMaterialsDisable(b) ==
    /\ pc = "idle"
    /\ b # materials_disable
    /\ materials_disable' = b
    /\ UNCHANGED <<filepath, filename_ext, gltf_export_binary,
                   buffers_embed_data, buffers_combine_data, asset_version,
                   axis, ext_vars, bpy_data, exec_vars, hist_vars>>

SetAxis(a) ==
    /\ pc = "idle"
    /\ a # axis
    /\ axis' = a
    /\ UNCHANGED <<filepath, filename_ext, gltf_export_binary,
                   buffers_embed_data, buffers_combine_data, asset_version,
                   materials_disable, ext_vars, bpy_data, exec_vars,
                   hist_vars>>

\* the 'enable' checkbox draw() lays out for every extension but
\* KHR_technique_webgl
SetExtensionEnable(i, b) ==
    /\ pc = "idle"
    /\ i \in DOMAIN extension_props
    /\ extension_props[i].name # KHR_technique_webgl
    /\ b # extension_props[i].enable
    /\ extension_props' = [extension_props EXCEPT ![i].enable = b]
    /\ UNCHANGED <<props, ext_prop_to_exporter_map, ext_meta_enable,
                   bpy_data, exec_vars, hist_vars>>

(***************************************************************************)
(* update_extensions, invoke, draw.                                        *)
(***************************************************************************)
\* ext_meta['enable'] after the first two loops: False, then the flag of
\* the exporter's property (the last one of that name)
update_extensions_meta(eprops) ==
    [n \in ExtNames |->
        LET idx == {i \in DOMAIN eprops : eprops[i].name = n}
        IN IF idx = {} THEN FALSE
           ELSE eprops[CHOOSE i \in idx : \A j \in idx : j <= i].enable]

\* the flag of prop in the rebuilt extension_props
update_extensions_enable(name, meta, version) ==
    IF name = KHR_technique_webgl
    THEN VersionLess(version, VERSION_2_0)
    ELSE meta[name]

\* extension_props after clear() and the third loop
update_extensions_props(meta, version) ==
    [i \in DOMAIN ext_exporters |->
        [name |-> ext_exporters[i],
         enable |-> update_extensions_enable(ext_exporters[i], meta, version)]]

update_extensions ==
    LET meta == update_extensions_meta(extension_props)
    IN /\ ext_prop_to_exporter_map' = ExtNames
       /\ ext_meta_enable' = meta
       /\ extension_props' = update_extensions_props(meta, asset_version)

\* invoke: update_extensions, then ExportHelper.invoke, which proposes the
\* .blend file's name plus filename_ext when no path is set
invoke ==
    /\ pc = "idle"
    /\ update_extensions
    /\ \E blend \in BlendNames :
         /\ filepath' = IF filepath = EMPTY THEN blend \o filename_ext
                        ELSE filepath
         /\ chosen' = IF filepath = EMPTY THEN filepath' ELSE chosen
    /\ path_checked' = IF filepath = EMPTY THEN FALSE ELSE path_checked
    /\ UNCHANGED <<filename_ext, gltf_export_binary, buffers_embed_data,
                   buffers_combine_data, asset_version, materials_disable,
                   axis, bpy_data, exec_vars>>

\* draw: update_extensions, then the layout, which changes no state
draw ==
    /\ pc = "idle"
    /\ update_extensions
    /\ UNCHANGED <<props, bpy_data, exec_vars, hist_vars>>

(***************************************************************************)
(* check.                                                                  *)
(***************************************************************************)
\* check_filepath with the new extension appended instead of written over
\* the old one
check_filepath_appending(binary, path) ==
    IF binary /\ endswith(path, DOT_GLTF) THEN path \o DOT_GLB
    ELSE IF ~binary /\ endswith(path, DOT_GLB) THEN path \o DOT_GLTF
    ELSE path

\* the extension rewrite
check_filepath(binary, path) ==
    IF binary /\ endswith(path, DOT_GLTF) THEN DropLast(path, 4) \o <<"g", "l", "b">>
    ELSE IF ~binary /\ endswith(path, DOT_GLB)
         THEN DropLast(path, 3) \o <<"g", "l", "t", "f">>
    ELSE path

\* buffers_combine_data after check
check_combine(binary, embed, combine) ==
    IF binary /\ embed /\ ~combine THEN TRUE ELSE combine

\* bpy.path.ensure_ext(filepath, ext); it compares without regard to case,
\* and the paths modelled are lower-case
ensure_ext(path, ext) == IF endswith(path, ext) THEN path ELSE path \o ext

\* ExportHelper.check with check_extension True: the path it leaves
ExportHelper_check(path, ext) ==
    IF basename(path) = EMPTY THEN path ELSE ensure_ext(path, ext)

check ==
    /\ pc = "idle"
    /\ LET path == check_filepath(gltf_export_binary, filepath)
           combine == check_combine(gltf_export_binary, buffers_embed_data,
                                    buffers_combine_data)
           redraw == path # filepath \/ combine # buffers_combine_data
           ext == IF gltf_export_binary THEN DOT_GLB ELSE DOT_GLTF
       IN /\ buffers_combine_data' = combine
          /\ filename_ext' = ext
          \* super().check runs only when nothing was rewritten
          /\ filepath' = IF redraw THEN path ELSE ExportHelper_check(path, ext)
    /\ path_checked' = TRUE
    /\ UNCHANGED <<gltf_export_binary, buffers_embed_data, asset_version,
                   materials_disable, axis, ext_vars, bpy_data, exec_vars,
                   chosen>>

(***************************************************************************)
(* execute, step by step.  No callback and no property change runs while   *)
(* it does: the export is synchronous.                                     *)
(***************************************************************************)
is_builtin_mat_ext(prop_name, version) ==
    IF VersionLess(version, VERSION_2_0)
    THEN prop_name = KHR_technique_webgl
    ELSE FALSE

\* extension_exporters without the filter: every property's exporter
extension_exporters_unfiltered(eprops, disable, version) ==
    [i \in DOMAIN eprops |-> eprops[i].name]

\* settings['extension_exporters'], by name
extension_exporters(eprops, disable, version) ==
    LET keep(prop) ==
            prop.enable /\ ~(disable /\ is_builtin_mat_ext(prop.name, version))
        kept == SelectSeq(eprops, keep)
    IN [i \in DOMAIN kept |-> kept[i].name]

\* the settings record: the properties as_keywords copies that the
\* modelled steps or export_gltf read, and the entries execute adds
execute_settings ==
    [set |-> TRUE,
     filepath |-> filepath,
     gltf_export_binary |-> gltf_export_binary,
     buffers_embed_data |-> buffers_embed_data,
     buffers_combine_data |-> buffers_combine_data,
     asset_version |-> asset_version,
     materials_disable |-> materials_disable,
     nodes_global_matrix |-> axis_conversion(axis),
     extension_exporters |->
         extension_exporters(extension_props, materials_disable, asset_version)]

\* execute up to and including the call of export_gltf; a property whose
\* name ext_prop_to_exporter_map lacks raises KeyError
execute_export ==
    /\ pc = "idle"
    /\ files' = << >>
    /\ IF \A i \in DOMAIN extension_props :
            extension_props[i].name \in ext_prop_to_exporter_map
                \/ ~extension_props[i].enable
       THEN /\ settings' = execute_settings
            /\ gltf' = export_gltf(bpy_data, settings')
            /\ gltf0' = gltf'
            /\ pc' = "root_nodes"
       ELSE /\ pc' = "error"
            /\ UNCHANGED <<settings, gltf, gltf0>>
    /\ UNCHANGED <<props, ext_vars, bpy_data, hist_vars>>

\* matrix_tuple with the entries taken column after column
matrix_tuple_by_columns(m) ==
    [i \in 1..16 |-> m[((i - 1) % 4) + 1][((i - 1) \div 4) + 1]]

\* the 16 entries of the matrix, row after row
matrix_tuple(m) == m[1] \o m[2] \o m[3] \o m[4]

root_node_id(scene_id) == scene_id \o ROOT_SUFFIX

\* the wrapper node of a scene
root_node(scene, matrix) == [children |-> scene.nodes, matrix |-> matrix]

\* one turn of the loop over gltf['scenes'].items()
wrap_scene(doc, scene_id, matrix) ==
    LET scene == doc.scenes[scene_id]
        id == root_node_id(scene_id)
    IN [doc EXCEPT
          !.nodes = [n \in DOMAIN doc.nodes \cup {id} |->
                        IF n = id THEN root_node(scene, matrix)
                        ELSE doc.nodes[n]],
          !.scenes[scene_id].nodes = <<id>>]

\* the loop, over the scenes still to visit
RECURSIVE wrap_scenes(_, _, _)
wrap_scenes(doc, todo, matrix) ==
    IF todo = {} THEN doc
    ELSE LET scene_id == CHOOSE s \in todo : TRUE
         IN wrap_scenes(wrap_scene(doc, scene_id, matrix),
                        todo \ {scene_id}, matrix)

\* whether execute adds the wrapper root nodes
needs_root_nodes(matrix) == matrix # Identity4

add_root_nodes(doc, matrix) ==
    IF needs_root_nodes(matrix)
    THEN wrap_scenes(doc, DOMAIN doc.scenes, matrix_tuple(matrix))
    ELSE doc

execute_root_nodes ==
    /\ pc = "root_nodes"
    /\ gltf' = add_root_nodes(gltf, settings.nodes_global_matrix)
    /\ pc' = "default_scene"
    /\ UNCHANGED <<props, ext_vars, bpy_data, settings, files, gltf0,
                   hist_vars>>

\* default_scene taking the last identifier of the sorted list
default_scene_last(doc) ==
    IF DOMAIN doc.scenes # {}
    THEN {CHOOSE k \in DOMAIN doc.scenes :
            \A j \in DOMAIN doc.scenes : j = k \/ StrLess(j, k)}
    ELSE doc.scene

\* gltf['scene'], as the set of the values the key holds (none or one)
default_scene(doc) ==
    IF DOMAIN doc.scenes # {}
    THEN {SortedFirst(DOMAIN doc.scenes)}
    ELSE doc.scene

execute_default_scene ==
    /\ pc = "default_scene"
    /\ gltf' = [gltf EXCEPT !.scene = default_scene(gltf)]
    /\ pc' = "default_values"
    /\ UNCHANGED <<props, ext_vars, bpy_data, settings, files, gltf0,
                   hist_vars>>

_DEFAULT_VALUES_BY_PARAM_TYPE ==
    (GL_INT :> IntVal(1)) @@
    (GL_FLOAT :> FloatVal(1)) @@
    (GL_FLOAT_VEC2 :> FloatTuple(<<1, 1>>)) @@
    (GL_FLOAT_VEC3 :> FloatTuple(<<1, 1, 1>>)) @@
    (GL_FLOAT_VEC4 :> FloatTuple(<<1, 1, 1, 1>>)) @@
    (GL_FLOAT_MAT2 :> FloatTuple(<<1, 0, 0, 1>>)) @@
    (GL_FLOAT_MAT3 :> FloatTuple(<<1, 0, 0, 0, 1, 0, 0, 0, 1>>)) @@
    (GL_FLOAT_MAT4 :> FloatTuple(<<1, 0, 0, 0, 0, 1, 0, 0,
                                   0, 0, 1, 0, 0, 0, 0, 1>>))

\* value_unset that never finds a value unset
value_unset_never(parameter) == FALSE

\* 'value' in parameter and parameter['value'] is None
value_unset(parameter) == parameter.value = None

\* the lookup of line 510 raises KeyError
default_missing(parameter) ==
    value_unset(parameter)
        /\ parameter.type \notin DOMAIN _DEFAULT_VALUES_BY_PARAM_TYPE

\* default_value without the lookup
default_value_kept(parameter) == parameter

default_value(parameter) ==
    IF value_unset(parameter)
    THEN [parameter EXCEPT !.value = _DEFAULT_VALUES_BY_PARAM_TYPE[parameter.type]]
    ELSE parameter

fill_default_values(doc) ==
    [doc EXCEPT !.techniques =
        [t \in DOMAIN doc.techniques |->
            [parameters |->
                [q \in DOMAIN doc.techniques[t].parameters |->
                    default_value(doc.techniques[t].parameters[q])]]]]

\* the loops over the techniques' parameters; on a KeyError the document,
\* a local of the failed call, is dropped as it is
execute_default_values ==
    /\ pc = "default_values"
    /\ IF \E t \in DOMAIN gltf.techniques :
            \E q \in DOMAIN gltf.techniques[t].parameters :
                default_missing(gltf.techniques[t].parameters[q])
       THEN /\ pc' = "error"
            /\ UNCHANGED gltf
       ELSE /\ pc' = "write"
            /\ gltf' = fill_default_values(gltf)
    /\ UNCHANGED <<props, ext_vars, bpy_data, settings, files, gltf0,
                   hist_vars>>

\* one file, opened for writing, written and closed by its with block
written(path, mode, what) ==
    [path |-> path, mode |-> mode, content |-> what, closed |-> TRUE]

\* the files the writing block opens, in order; open('') raises
written_files(binary, path) ==
    IF binary
    THEN IF path = EMPTY THEN << >>
         ELSE <<written(path, "wb", "gltf")>>
    ELSE <<written(path \o DOT_RAW, "w", "raw")>>
         \o (IF path = EMPTY THEN << >> ELSE <<written(path, "w", "json")>>)

execute_write ==
    /\ pc = "write"
    /\ files' = written_files(gltf_export_binary, filepath)
    /\ pc' = IF filepath = EMPTY THEN "error" ELSE "finished"
    /\ UNCHANGED <<props, ext_vars, bpy_data, settings, gltf, gltf0,
                   hist_vars>>

\* execute returns {'FINISHED'}, or its exception reaches the host; the
\* operator is idle again and its locals are gone
operator_return ==
    /\ pc \in {"finished", "error"}
    /\ pc' = "idle"
    /\ settings' = NoSettings
    /\ gltf' = NoDocument
    /\ gltf0' = NoDocument
    /\ files' = << >>
    /\ UNCHANGED <<props, ext_vars, bpy_data, hist_vars>>

(***************************************************************************)
(* Specifications.                                                         *)
(***************************************************************************)
execute ==
    \/ execute_export
    \/ execute_root_nodes
    \/ execute_default_scene
    \/ execute_default_values
    \/ execute_write
    \/ operator_return

Init == InitWith({PlainData})

Next ==
    \/ \E path \in UserPaths : SetFilepath(path)
    \/ \E b \in BOOLEAN : SetBinary(b)
    \/ \E b \in BOOLEAN : SetEmbed(b)
    \/ \E b \in BOOLEAN : SetCombine(b)
    \/ \E v \in VERSION_ITEMS : SetVersion(v)
    \/ \E b \in BOOLEAN : SetMaterialsDisable(b)
    \/ \E a \in AxisChoices : SetAxis(a)
    \/ \E i \in DOMAIN ext_exporters, b \in BOOLEAN : SetExtensionEnable(i, b)
    \/ invoke
    \/ draw
    \/ check
    \/ execute

Spec == Init /\ [][Next]_vars

\* The specifications below each keep the actions that write or read the
\* state one area of the operator is about; the properties the others would
\* change stay at their defaults.

\* the file name and the buffer flags, in the plain scene
NextPath ==
    \/ \E path \in UserPaths : SetFilepath(path)
    \/ \E b \in BOOLEAN : SetBinary(b)
    \/ \E b \in BOOLEAN : SetEmbed(b)
    \/ \E b \in BOOLEAN : SetCombine(b)
    \/ invoke
    \/ draw
    \/ check
    \/ execute

SpecPath == Init /\ [][NextPath]_vars

\* the scenes and node hierarchies, under each axis choice
NextScenes ==
    \/ \E a \in AxisChoices : SetAxis(a)
    \/ invoke
    \/ execute

SpecScenes == InitWith(SceneData) /\ [][NextScenes]_vars

\* the techniques, under each version
NextTechniques ==
    \/ \E v \in VERSION_ITEMS : SetVersion(v)
    \/ invoke
    \/ execute

SpecTechniques == InitWith(TechniqueData) /\ [][NextTechniques]_vars

\* the extensions, in the plain scene
NextExtensions ==
    \/ \E v \in VERSION_ITEMS : SetVersion(v)
    \/ \E b \in BOOLEAN : SetMaterialsDisable(b)
    \/ \E i \in DOMAIN ext_exporters, b \in BOOLEAN : SetExtensionEnable(i, b)
    \/ invoke
    \/ draw
    \/ execute

SpecExtensions == Init /\ [][NextExtensions]_vars

(***************************************************************************)
(* Properties.                                                             *)
(***************************************************************************)
ChosenHasExtension == endswith(chosen, DOT_GLTF) \/ endswith(chosen, DOT_GLB)

\* the chosen path without its last extension
ChosenStem ==
    IF endswith(chosen, DOT_GLTF) THEN DropLast(chosen, 5)
    ELSE DropLast(chosen, 4)

BinaryExtension == IF gltf_export_binary THEN DOT_GLB ELSE DOT_GLTF

\* C1: when the path was chosen as stem + '.gltf' or stem + '.glb', then
\* after any changes of gltf_export_binary, once check() has run since the
\* last of them, the path is the stem followed by exactly one extension,
\* '.glb' in binary mode and '.gltf' otherwise: the old extension is written
\* over, never kept with a second one after it.
C1_CheckRewritesExtension ==
    (path_checked /\ ChosenHasExtension)
        => filepath = ChosenStem \o BinaryExtension

\* C1's case: a path chosen with one of the two extensions, and check() has
\* replaced it by the other one
C1_Witness ==
    /\ path_checked
    /\ endswith(chosen, DOT_GLTF)
    /\ gltf_export_binary
    /\ ChosenStem # EMPTY
    /\ filepath = ChosenStem \o DOT_GLB

\* C2: whenever execute() has opened its output file in binary mode, for a
\* path chosen with the extension '.gltf', the path it opened ends in
\* '.glb' and not in '.gltf' -- whatever callbacks and property changes
\* came before execute().
C2_BinaryOpensGlb ==
    \A i \in DOMAIN files :
        (files[i].mode = "wb" /\ endswith(chosen, DOT_GLTF))
            => /\ endswith(files[i].path, DOT_GLB)
               /\ ~endswith(files[i].path, DOT_GLTF)

\* C3: the settings record execute() hands to export_gltf never asks for a
\* binary export with embedded but not combined buffers.
C3_SettingsNeverConflict ==
    settings.set =>
        ~(/\ settings.gltf_export_binary
          /\ settings.buffers_embed_data
          /\ ~settings.buffers_combine_data)

\* execute() is past its wrapper-root pass
RootNodesDone ==
    pc \in {"default_scene", "default_values", "write", "finished"}
        \/ (pc = "error" /\ gltf.set)

WrapperIds == {root_node_id(s) : s \in DOMAIN gltf0.scenes}

\* C4: after the wrapper-root pass, with the identity as
\* nodes_global_matrix the nodes and every scene's node list are as
\* export_gltf returned them; with another matrix there is one more node
\* per scene than export_gltf returned and every scene's node list is
\* exactly its wrapper.
C4_OneWrapperPerScene ==
    RootNodesDone =>
        IF settings.nodes_global_matrix = Identity4
        THEN gltf.nodes = gltf0.nodes /\ gltf.scenes = gltf0.scenes
        ELSE /\ Cardinality(DOMAIN gltf.nodes) =
                  Cardinality(DOMAIN gltf0.nodes)
                      + Cardinality(DOMAIN gltf0.scenes)
             /\ DOMAIN gltf.scenes = DOMAIN gltf0.scenes
             /\ \A s \in DOMAIN gltf.scenes :
                  gltf.scenes[s].nodes = <<s \o ROOT_SUFFIX>>

DefaultSceneDone ==
    pc \in {"default_values", "write", "finished"}
        \/ (pc = "error" /\ gltf.set)

\* C6: after execute() chose the default scene, when export_gltf returned
\* scenes gltf['scene'] is one of their identifiers and none of them sorts
\* before it; when it returned none, gltf['scene'] is as export_gltf left
\* it.  Only the identifiers export_gltf returned decide, with or without
\* wrapper roots.
C6_DefaultSceneIsSortedFirst ==
    DefaultSceneDone =>
        IF DOMAIN gltf0.scenes # {}
        THEN \E k \in DOMAIN gltf0.scenes :
                /\ gltf.scene = {k}
                /\ k \in DOMAIN gltf.scenes
                /\ \A j \in DOMAIN gltf0.scenes : ~StrLess(j, k)
        ELSE gltf.scene = gltf0.scene

\* C6's case: two scenes, wrapped, and the default scene chosen
C6_Witness ==
    /\ pc = "default_values"
    /\ Cardinality(DOMAIN gltf0.scenes) = 2
    /\ settings.nodes_global_matrix # Identity4
    /\ gltf.scene = {<<"S">>}

\* the parameters of a document, as <<technique, parameter>> keys
ParameterKeys(doc) ==
    UNION {{<<t, q>> : q \in DOMAIN doc.techniques[t].parameters} :
             t \in DOMAIN doc.techniques}

Parameter(doc, key) == doc.techniques[key[1]].parameters[key[2]]

\* C7: when execute() reaches the writing of the file, the document has
\* the techniques and parameters export_gltf returned, none of them with
\* the value None; a parameter returned with the value None holds the
\* default of its GL type (1 for GL_INT, 1.0 for GL_FLOAT, the 16 entries
\* of the identity for GL_FLOAT_MAT4), and every other parameter is as
\* export_gltf returned it.
C7_UnsetParametersGetDefaults ==
    pc \in {"write", "finished"} =>
        /\ ParameterKeys(gltf) = ParameterKeys(gltf0)
        /\ \A key \in ParameterKeys(gltf0) :
             LET before == Parameter(gltf0, key)
                 after == Parameter(gltf, key)
             IN /\ after.value # None
                /\ after.type = before.type
                /\ before.value # None => after = before
                /\ (before.value = None /\ before.type = GL_INT)
                       => after.value = IntVal(1)
                /\ (before.value = None /\ before.type = GL_FLOAT)
                       => after.value = FloatVal(1)
                /\ (before.value = None /\ before.type = GL_FLOAT_MAT4)
                       => after.value = FloatTuple(IdentityFlat)

\* C7's case: execute() writes a document in which export_gltf left a float
\* and a 4x4 matrix parameter unset and gave another parameter a value
C7_Witness ==
    /\ pc = "finished"
    /\ \E k1, k2 \in ParameterKeys(gltf0) :
         /\ Parameter(gltf0, k1) = [type |-> GL_FLOAT, value |-> None]
         /\ Parameter(gltf0, k2) = [type |-> GL_FLOAT_MAT4, value |-> None]

\* a parameter export_gltf returned unset has a GL type without a default
MissingDefault ==
    /\ gltf0.set
    /\ \E key \in ParameterKeys(gltf0) :
         /\ Parameter(gltf0, key).value = None
         /\ Parameter(gltf0, key).type \notin
                {GL_INT, GL_FLOAT, GL_FLOAT_VEC2, GL_FLOAT_VEC3,
                 GL_FLOAT_VEC4, GL_FLOAT_MAT2, GL_FLOAT_MAT3, GL_FLOAT_MAT4}

\* C8: when a parameter export_gltf returned unset has a GL type without a
\* default, execute() never gets to write or to return FINISHED: it is
\* still assembling the document or has failed, and it has opened no file.
C8_MissingDefaultIsFatal ==
    MissingDefault =>
        /\ pc \in {"root_nodes", "default_scene", "default_values", "error"}
        /\ files = << >>

\* C8's case: execute() has failed on such a parameter, beside one it could
\* have filled
C8_Witness ==
    /\ MissingDefault
    /\ pc = "error"
    /\ filepath # EMPTY
    /\ \E key \in ParameterKeys(gltf0) :
         Parameter(gltf0, key) = [type |-> GL_FLOAT, value |-> None]

\* C9: execute() opens files only at its very end, on the assembled
\* document; an export that returns FINISHED has opened exactly one file,
\* in binary and in text mode, the one at filepath, and closed it; a failed
\* export leaves no document on disk.
C9_OneFileAtTheEnd ==
    /\ files # << >> => pc \in {"finished", "error"}
    /\ \A i \in DOMAIN files : files[i].closed
    /\ pc = "finished" => Len(files) = 1 /\ files[1].path = filepath
    /\ pc = "error" =>
         \A i \in DOMAIN files : files[i].content \notin {"json", "gltf"}

\* C10: settings['extension_exporters'] holds KHR_technique_webgl only when
\* the asset_version execute() ran with is below 2.0 and materials_disable
\* is false.
C10_LegacyOnlyBelowVersion2 ==
    settings.set =>
        (KHR_technique_webgl \in Range(settings.extension_exporters)
            => /\ VersionLess(settings.asset_version, VERSION_2_0)
               /\ ~settings.materials_disable)

\* the names of the properties of eprops that are enabled
EnabledNames(eprops) ==
    {eprops[i].name : i \in {j \in DOMAIN eprops : eprops[j].enable}}

\* names is in strictly ascending order of extension name: sorted, and no
\* name twice
NameSorted(names) ==
    \A i, j \in DOMAIN names :
        i < j => StrLess(ext_meta_name(names[i]), ext_meta_name(names[j]))

\* eprops has one property per registered exporter, in name order
OnePerExporter(eprops) ==
    /\ Len(eprops) = Len(extension_exporters_all)
    /\ {eprops[i].name : i \in DOMAIN eprops} = Range(extension_exporters_all)
    /\ NameSorted([i \in DOMAIN eprops |-> eprops[i].name])

\* C11: extension_props is empty (update_extensions has not run yet) or has
\* one property per registered exporter in name order; update_extensions,
\* run on the properties as they are, leaves one property per registered
\* exporter in name order, with the flag each property other than
\* KHR_technique_webgl had, and run once more changes nothing; and the list
\* execute() hands to export_gltf is in strictly ascending name order, holds
\* only enabled extensions, and lacks an enabled one only if that one is
\* KHR_technique_webgl and materials_disable is set -- which it always does
\* lack then for a version below 2.0.
C11_EnabledExtensionsInNameOrder ==
    /\ extension_props # << >> => OnePerExporter(extension_props)
    /\ LET once == update_extensions_props(
                       update_extensions_meta(extension_props), asset_version)
           twice == update_extensions_props(
                        update_extensions_meta(once), asset_version)
       IN /\ OnePerExporter(once)
          /\ \A i \in DOMAIN extension_props :
               extension_props[i].name # KHR_technique_webgl =>
                   \E j \in DOMAIN once :
                       /\ once[j].name = extension_props[i].name
                       /\ once[j].enable = extension_props[i].enable
          /\ twice = once
    /\ (settings.set /\ pc # "idle") =>
         LET list == settings.extension_exporters
         IN /\ NameSorted(list)
            /\ Range(list) \subseteq EnabledNames(extension_props)
            /\ \A n \in EnabledNames(extension_props) \ Range(list) :
                 n = KHR_technique_webgl /\ materials_disable
            /\ (materials_disable /\ VersionLess(asset_version, VERSION_2_0))
                 => KHR_technique_webgl \notin Range(list)

\* C11's case: the user enabled the two other extensions, the version is
\* 1.0 and materials_disable is set; execute() handed over the two, in name
\* order, without the enabled KHR_technique_webgl
C11_Witness ==
    /\ settings.set
    /\ materials_disable
    /\ EnabledNames(extension_props) = Range(extension_exporters_all)
    /\ settings.extension_exporters = <<"BLENDER_physics", "KHR_lights">>

\* C12: after the wrapper-root pass, when no node export_gltf returned was
\* reachable from itself through 'children', no node of the document is --
\* whatever the node and scene identifiers are, one of the form
\* '<scene_id>_root' among them.
C12_HierarchyStaysAcyclic ==
    RootNodesDone => (Acyclic(gltf0.nodes) => Acyclic(gltf.nodes))

\* node n is in the scene's node list or below one of its entries
ReachableFromScene(doc, scene_id, n) ==
    \E r \in Range(doc.scenes[scene_id].nodes) :
        r = n \/ Reaches(doc.nodes, r, n, Cardinality(DOMAIN doc.nodes))

\* C13: after the wrapper-root pass, every node export_gltf returned is in
\* the document under its identifier with the record it had, no two scenes
\* have the same wrapper identifier, and every node identifier that was in
\* a scene's node list can be reached from that scene.
C13_WrapperPassOnlyAdds ==
    RootNodesDone =>
        /\ \A n \in DOMAIN gltf0.nodes :
             n \in DOMAIN gltf.nodes /\ gltf.nodes[n] = gltf0.nodes[n]
        /\ \A s, t \in DOMAIN gltf0.scenes :
             s # t => root_node_id(s) # root_node_id(t)
        /\ \A s \in DOMAIN gltf0.scenes :
             \A n \in Range(gltf0.scenes[s].nodes) :
                 ReachableFromScene(gltf, s, n)
====
